---- MODULE Spec2Model ----
(***************************************************************************)
(* Value extraction and template synthesis of helmify's ConfigMap and      *)
(* StatefulSet processors.                                                 *)
(*                                                                         *)
(* Texts are sequences of tokens.  A token is a one-character string, or   *)
(* one of the fixed literal pieces of a placeholder ("{{ .Values." ...),   *)
(* so that the concatenation of the tokens is the Go string.               *)
(* A values tree (helmify.Values) is kept flat: a function from the paths  *)
(* of its leaves to the leaves.                                            *)
(***************************************************************************)
EXTENDS Integers, Sequences, FiniteSets, TLC

VARIABLES properties, propOut, obj, fault, phase, by, out

vars == <<properties, propOut, obj, fault, phase, by, out>>

(***************************************************************************)
(* Bounds of the model.                                                    *)
(***************************************************************************)
MaxLen == 7
MaxYamlLeaves == 2
MaxContainers == 2

(***************************************************************************)
(* Go's strings package, on token sequences.                               *)
(***************************************************************************)
HasSuffix(s, suffix) ==
  /\ Len(s) >= Len(suffix)
  /\ SubSeq(s, Len(s) - Len(suffix) + 1, Len(s)) = suffix

TrimSuffix(s, suffix) ==
  IF HasSuffix(s, suffix) THEN SubSeq(s, 1, Len(s) - Len(suffix)) ELSE s

\* 0-based index of the last sep in s, -1 when there is none.
LastIndex(s, sep) ==
  IF \E i \in 1..Len(s) : s[i] = sep
    THEN (CHOOSE i \in 1..Len(s) : s[i] = sep /\ \A j \in (i+1)..Len(s) : s[j] # sep) - 1
    ELSE -1

RECURSIVE Split(_, _)
Split(s, sep) ==
  IF \E i \in 1..Len(s) : s[i] = sep
    THEN LET i == CHOOSE k \in 1..Len(s) : s[k] = sep /\ \A j \in 1..(k-1) : s[j] # sep
         IN  <<SubSeq(s, 1, i - 1)>> \o Split(SubSeq(s, i + 1, Len(s)), sep)
    ELSE <<s>>

RECURSIVE Join(_, _)
Join(elems, sep) ==
  IF Len(elems) = 0 THEN <<>>
  ELSE IF Len(elems) = 1 THEN elems[1]
  ELSE elems[1] \o <<sep>> \o Join(Tail(elems), sep)

ReplaceAll(s, old) == SelectSeq(s, LAMBDA t : t # old)

IsPrefix(p, q) == Len(p) <= Len(q) /\ SubSeq(q, 1, Len(p)) = p

(***************************************************************************)
(* helmify.Values, flat.  A leaf is a Go interface{} value: its dynamic    *)
(* type and its text.                                                      *)
(***************************************************************************)
Leaf(kind, val) == [kind |-> kind, val |-> val]
Str(s)          == Leaf("string", s)

EmptyValues == [p \in {} |-> Str(<<>>)]

\* unstructured.SetNestedField: fails when a field on the way to the last one
\* holds a value that is no mapping; a mapping at the last field is replaced.
SetNestedField(values, value, path) ==
  IF \E i \in 1..(Len(path) - 1) : SubSeq(path, 1, i) \in DOMAIN values
    THEN [err |-> "not a map", values |-> values]
    ELSE [err |-> "",
          values |-> [p \in {q \in DOMAIN values : ~IsPrefix(path, q)} \cup {path} |->
                        IF p = path THEN value ELSE values[p]]]

\* {{ .Values.<dot-joined path> }}
Placeholder(path) == <<"{{ .Values.">> \o Join(path, ".") \o <<" }}">>

\* Values.Add: the leaf is set at path, the placeholder of the path is returned.
Add(values, value, path) ==
  LET set == SetNestedField(values, value, path)
  IN  IF set.err # ""
        THEN [err |-> "unable to set value", values |-> values, templ |-> <<>>]
        ELSE [err |-> "", values |-> set.values, templ |-> Placeholder(path)]

(***************************************************************************)
(* configmap.parseProperties                                               *)
(***************************************************************************)
RECURSIVE propertiesLines(_, _, _, _, _)
propertiesLines(lines, i, path, values, res) ==
  IF i > Len(lines) THEN [err |-> "", text |-> res, values |-> values]
  ELSE
    LET prop == Split(lines[i], "=")
    IN  IF Len(prop) # 2
          THEN [err |-> "wrong property format", text |-> <<>>, values |-> values]
          ELSE
            LET propName     == prop[1]
                propVal      == prop[2]
                propNamePath == Split(propName, ".")
                added        == Add(values, Str(propVal), path \o propNamePath)
            IN  IF added.err # ""
                  THEN [err |-> added.err, text |-> <<>>, values |-> values]
                  ELSE propertiesLines(lines, i + 1, path, added.values,
                                       res \o propName \o <<"=">> \o added.templ \o <<"\n">>)

\* parseProperties without the removal of the trailing newline.
parseProperties_NoTrim(props, path, values) ==
  propertiesLines(Split(props, "\n"), 1, path, values, <<>>)

parseProperties(props, path, values) ==
  propertiesLines(Split(TrimSuffix(props, <<"\n">>), "\n"), 1, path, values, <<>>)

(***************************************************************************)
(* YAML documents.  The text of a document is kept as what decides the     *)
(* code's behaviour: whether it is the source text or yaml.Marshal's       *)
(* output, whether it decodes into a mapping, the mapping it decodes into  *)
(* (flat: path of keys -> leaf) and, for a text that does not decode, its  *)
(* characters.                                                             *)
(***************************************************************************)
YamlDoc(form, decodes, config, opaque) ==
  [form |-> form, decodes |-> decodes, config |-> config, opaque |-> opaque]

EmptyConfig == [p \in {} |-> Str(<<>>)]

\* yaml.Unmarshal into a map[string]interface{}
Unmarshal(value) ==
  IF value.decodes THEN [err |-> "", config |-> value.config]
                   ELSE [err |-> "unable to unmarshal", config |-> EmptyConfig]

\* yaml.Marshal
Marshal(config) == YamlDoc("marshalled", TRUE, config, <<>>)

K_kind       == <<"k", "i", "n", "d">>
K_apiVersion == <<"a", "p", "i", "V", "e", "r", "s", "i", "o", "n">>
K_a          == <<"a">>

Scalars == {"string", "bool", "float64", "int64"}

LogEntry(msg, path) == [msg |-> msg, path |-> path]

\* The keys of the mapping at position at of config.
KeysAt(config, at) ==
  {p[Len(at) + 1] : p \in {q \in DOMAIN config : IsPrefix(at, q) /\ Len(q) > Len(at)}}

(***************************************************************************)
(* configmap.parseConfig.  Go ranges over a map in an order of its own     *)
(* choosing: the operators below return the set of the results of all      *)
(* orders.  at is the position of the mapping inside the document, path    *)
(* the path of the mapping in the values; a result is the rewritten        *)
(* document, the values and the log.                                       *)
(***************************************************************************)
configKeyBut(kept, k, config, values, at, path, log) ==
  LET v == config[at \o <<k>>]
  IN  IF v.kind \in Scalars
        THEN IF k \in kept
               THEN [config |-> config, values |-> values, log |-> log]
               ELSE LET added == Add(values, v, path \o <<k>>)
                    IN  IF added.err # ""
                          THEN [config |-> config, values |-> values,
                                log |-> Append(log, LogEntry(added.err, path \o <<k>>))]
                          ELSE [config |-> [config EXCEPT ![at \o <<k>>] = Str(added.templ)],
                                values |-> added.values, log |-> log]
      ELSE IF v.kind = "array"
        THEN [config |-> config, values |-> values,
              log |-> Append(log, LogEntry("configmap: arrays not supported", <<>>))]
        ELSE [config |-> config, values |-> values,
              log |-> Append(log, LogEntry("configmap: unknown type", <<>>))]

\* The case of a key that holds no mapping, apiVersion being extracted.
configKey_KindOnly(k, config, values, at, path, log) ==
  configKeyBut({K_kind}, k, config, values, at, path, log)

\* The case of a key that holds no mapping (lines 144-155, 165-167).
configKey(k, config, values, at, path, log) ==
  configKeyBut({K_kind, K_apiVersion}, k, config, values, at, path, log)

RECURSIVE configRange(_, _, _, _, _, _)
configRange(todo, config, values, at, path, log) ==
  IF todo = {} THEN {[config |-> config, values |-> values, log |-> log]}
  ELSE UNION {
         LET done == IF at \o <<k>> \in DOMAIN config
                       THEN {configKey(k, config, values, at, path, log)}
                       ELSE configRange(KeysAt(config, at \o <<k>>), config, values,
                                        at \o <<k>>, path \o <<k>>, log)
         IN  UNION {configRange(todo \ {k}, r.config, r.values, at, path, r.log) : r \in done}
         : k \in todo}

parseConfig(config, values, at, path, log) ==
  configRange(KeysAt(config, at), config, values, at, path, log)

(***************************************************************************)
(* configmap.parseYaml                                                     *)
(***************************************************************************)
parseYaml(value, path, values, log) ==
  LET decoded == Unmarshal(value)
  IN  IF decoded.err # ""
        THEN {[err |-> decoded.err, text |-> value, values |-> values, log |-> log]}
        ELSE {[err |-> "", text |-> Marshal(r.config), values |-> r.values, log |-> r.log] :
                r \in parseConfig(decoded.config, values, <<>>, path, log)}

(***************************************************************************)
(* configmap.parseMapData: the set of the results of all orders of the     *)
(* range over data.                                                        *)
(***************************************************************************)
SuffixYaml       == <<".", "y", "a", "m", "l">>
SuffixYml        == <<".", "y", "m", "l">>
SuffixProperties == <<".", "p", "r", "o", "p", "e", "r", "t", "i", "e", "s">>

Unable(path) == LogEntry("unable to process configmap data", path)

mapDataKeyAt(valuesNamePath, key, data, values, log) ==
  LET value == data[key]
  IN  IF HasSuffix(key, SuffixYaml) \/ HasSuffix(key, SuffixYml)
        THEN {IF y.err # ""
                THEN [data |-> data, values |-> y.values,
                      log |-> Append(y.log, Unable(valuesNamePath))]
                ELSE [data |-> [data EXCEPT ![key] = y.text], values |-> y.values,
                      log |-> y.log] :
              y \in parseYaml(value, valuesNamePath, values, log)}
      ELSE IF HasSuffix(key, SuffixProperties)
        THEN LET p == parseProperties(value, valuesNamePath, values)
             IN  IF p.err # ""
                   THEN {[data |-> data, values |-> p.values,
                          log |-> Append(log, Unable(valuesNamePath))]}
                   ELSE {[data |-> [data EXCEPT ![key] = p.text], values |-> p.values,
                          log |-> log]}
        ELSE LET added == Add(values, Str(value), valuesNamePath)
             IN  IF added.err # ""
                   THEN {[data |-> data, values |-> values,
                          log |-> Append(log, Unable(valuesNamePath))]}
                   ELSE {[data |-> [data EXCEPT ![key] = added.templ],
                          values |-> added.values, log |-> log]}

\* The body of the range with the key left out of the path of the values.
mapDataKey_NoKey(key, data, configName, values, log) ==
  mapDataKeyAt(<<configName>>, key, data, values, log)

\* The body of the range over data, for one key (lines 77-101).
mapDataKey(key, data, configName, values, log) ==
  mapDataKeyAt(<<configName, key>>, key, data, values, log)

RECURSIVE mapDataRange(_, _, _, _, _)
mapDataRange(todo, data, configName, values, log) ==
  IF todo = {} THEN {[data |-> data, values |-> values, log |-> log]}
  ELSE UNION {
         UNION {mapDataRange(todo \ {key}, r.data, configName, r.values, r.log) :
                  r \in mapDataKey(key, data, configName, values, log)}
         : key \in todo}

parseMapData(data, configName) ==
  mapDataRange(DOMAIN data, data, configName, EmptyValues, <<>>)

(***************************************************************************)
(* configMap.Process.  fault names the call of a collaborator that fails:  *)
(* "metadata" processor.ProcessMetadata, "marshal" yamlformat.Marshal.     *)
(* An optional field of the object is the empty set or a singleton.        *)
(***************************************************************************)
configMapGVC == "v1/ConfigMap"

Outcome(processed, template, err, log) ==
  [processed |-> processed, template |-> template, err |-> err, log |-> log]

\* A rejection that declines the resource.
rejected_Declined(err, log) == Outcome(FALSE, {}, err, log)

\* return true, nil, err
rejected(err, log) == Outcome(TRUE, {}, err, log)

\* return false, nil, nil
notApplicable == Outcome(FALSE, {}, "", <<>>)

IsYamlKey(key) == HasSuffix(key, SuffixYaml) \/ HasSuffix(key, SuffixYml)

\* strings.ReplaceAll(dataStr, "'", "") on the marshalled data.
StripQuotes(data) ==
  [k \in DOMAIN data |->
     IF IsYamlKey(k)
       THEN YamlDoc(data[k].form, data[k].decodes,
                    [p \in DOMAIN data[k].config |->
                       Leaf(data[k].config[p].kind, ReplaceAll(data[k].config[p].val, "'"))],
                    ReplaceAll(data[k].opaque, "'"))
       ELSE ReplaceAll(data[k], "'")]

configMapResult(o, parsed) ==
  [name       |-> o.name \o <<".", "y", "a", "m", "l">>,
   immutable  |-> o.immutable,
   binaryData |-> o.binaryData,
   data       |-> {StripQuotes(d.data) : d \in parsed},
   values     |-> IF parsed = {} THEN EmptyValues ELSE (CHOOSE d \in parsed : TRUE).values]

configMapProcess(o, f) ==
  IF o.gvk # configMapGVC THEN {notApplicable}
  ELSE IF f = "metadata" THEN {rejected("metadata", <<>>)}
  ELSE IF f = "marshal" /\ o.immutable # {} THEN {rejected("marshal", <<>>)}
  ELSE IF f = "marshal" /\ o.binaryData # {} THEN {rejected("marshal", <<>>)}
  ELSE IF o.data = {} THEN {Outcome(TRUE, {configMapResult(o, {})}, "", <<>>)}
  ELSE {IF f = "marshal"
          THEN rejected("marshal", r.log)
          ELSE Outcome(TRUE, {configMapResult(o, {r})}, "", r.log) :
        r \in UNION {parseMapData(d, o.name) : d \in o.data}}

(***************************************************************************)
(* strcase.ToLowerCamel, character by character: a delimiter is dropped    *)
(* and the letter after it (or after a digit) is written in upper case, a  *)
(* leading capital in lower case.                                          *)
(***************************************************************************)
LowerCase == <<"a", "b", "c", "d", "e", "f", "g", "h", "i", "j", "k", "l", "m",
               "n", "o", "p", "q", "r", "s", "t", "u", "v", "w", "x", "y", "z">>
UpperCase == <<"A", "B", "C", "D", "E", "F", "G", "H", "I", "J", "K", "L", "M",
               "N", "O", "P", "Q", "R", "S", "T", "U", "V", "W", "X", "Y", "Z">>
Digits     == {"0", "1", "2", "3", "4", "5", "6", "7", "8", "9"}
Delimiters == {"_", " ", "-", "."}

LowerSet   == {LowerCase[i] : i \in 1..Len(LowerCase)}
UpperSet   == {UpperCase[i] : i \in 1..Len(UpperCase)}

IsLow(c) == c \in LowerSet
IsCap(c) == c \in UpperSet
ToUpper(c) == UpperCase[CHOOSE i \in 1..Len(LowerCase) : LowerCase[i] = c]
ToLower(c) == LowerCase[CHOOSE i \in 1..Len(UpperCase) : UpperCase[i] = c]

RECURSIVE camelFrom(_, _, _, _)
camelFrom(s, i, capNext, n) ==
  IF i > Len(s) THEN n
  ELSE LET c == s[i]
           v == IF capNext THEN (IF IsLow(c) THEN ToUpper(c) ELSE c)
                ELSE IF i = 1 /\ IsCap(c) THEN ToLower(c) ELSE c
       IN  IF IsCap(c) \/ IsLow(c) THEN camelFrom(s, i + 1, FALSE, Append(n, v))
           ELSE IF c \in Digits THEN camelFrom(s, i + 1, TRUE, Append(n, v))
           ELSE camelFrom(s, i + 1, c \in Delimiters, n)

ToLowerCamel(s) == camelFrom(s, 1, FALSE, <<>>)

(***************************************************************************)
(* Values.Merge: the union of two trees; fails when the trees hold         *)
(* different leaves at one path, or a leaf where the other has a mapping.  *)
(***************************************************************************)
Merge(values, other) ==
  IF \E p \in DOMAIN other, q \in DOMAIN values :
        \/ p = q /\ other[p] # values[q]
        \/ p # q /\ (IsPrefix(p, q) \/ IsPrefix(q, p))
    THEN [err |-> "unable to merge helm values", values |-> values]
    ELSE [err |-> "",
          values |-> [p \in DOMAIN values \cup DOMAIN other |->
                        IF p \in DOMAIN values THEN values[p] ELSE other[p]]]

(***************************************************************************)
(* statefulset: the fields of the values tree.                             *)
(***************************************************************************)
F_replicas   == <<"r", "e", "p", "l", "i", "c", "a", "s">>
F_image      == <<"i", "m", "a", "g", "e">>
F_repository == <<"r", "e", "p", "o", "s", "i", "t", "o", "r", "y">>
F_tag        == <<"t", "a", "g">>
F_resources  == <<"r", "e", "s", "o", "u", "r", "c", "e", "s">>
F_requests   == <<"r", "e", "q", "u", "e", "s", "t", "s">>
F_limits     == <<"l", "i", "m", "i", "t", "s">>

(***************************************************************************)
(* statefulset.processReplicas                                             *)
(***************************************************************************)
processReplicas(name, o, values, f) ==
  IF o.replicas = {} THEN [err |-> "", replicas |-> <<>>, values |-> values]
  ELSE LET added == Add(values, Leaf("int64", CHOOSE n \in o.replicas : TRUE),
                        <<name, F_replicas>>)
       IN  IF added.err # "" THEN [err |-> added.err, replicas |-> <<>>, values |-> values]
           ELSE IF f = "marshal"
             THEN [err |-> "marshal", replicas |-> <<>>, values |-> added.values]
             ELSE [err |-> "",
                   replicas |-> ReplaceAll(<<"replicas: ">> \o added.templ, "'"),
                   values |-> added.values]

(***************************************************************************)
(* statefulset.processPodContainer.  The rewriting of the references to    *)
(* Secrets and ConfigMaps and the appended environment entry extract no    *)
(* value and are left out.                                                 *)
(***************************************************************************)
ImageTemplate(name, containerName) ==
  <<"{{ .Values.">> \o name \o <<".">> \o containerName
     \o <<".image.repository }}", ":", "{{ .Values.">> \o name \o <<".">> \o containerName
     \o <<".image.tag | default .Chart.AppVersion }}">>

RECURSIVE setResources(_, _, _, _, _)
setResources(todo, list, values, base, field) ==
  IF todo = {} THEN [err |-> "", values |-> values]
  ELSE LET k   == CHOOSE x \in todo : TRUE
           set == SetNestedField(values, Str(list[k]), base \o <<F_resources, field, k>>)
       IN  IF set.err # ""
             THEN [err |-> "unable to set container resources value", values |-> values]
             ELSE setResources(todo \ {k}, list, set.values, base, field)

\* Lines 258-305 of processPodContainer, index being the place of the split.
podContainerAt(index, name, c, values) ==
  IF index < 0 THEN [err |-> "wrong image format", c |-> c, values |-> values]
  ELSE
    LET repo          == SubSeq(c.image, 1, index)
        tag           == SubSeq(c.image, index + 2, Len(c.image))
        containerName == ToLowerCamel(c.name)
        c2            == [c EXCEPT !.image = ImageTemplate(name, containerName)]
        base          == <<name, containerName>>
        setRepo       == SetNestedField(values, Str(repo), base \o <<F_image, F_repository>>)
        setTag        == SetNestedField(setRepo.values, Str(tag), base \o <<F_image, F_tag>>)
        setReq        == setResources(DOMAIN c.requests, c.requests, setTag.values,
                                      base, F_requests)
        setLim        == setResources(DOMAIN c.limits, c.limits, setReq.values,
                                      base, F_limits)
    IN  IF setRepo.err # ""
          THEN [err |-> "unable to set statefulset value field", c |-> c2, values |-> values]
        ELSE IF setTag.err # ""
          THEN [err |-> "unable to set statefulset value field", c |-> c2,
                values |-> setRepo.values]
        ELSE IF setReq.err # "" THEN [err |-> setReq.err, c |-> c2, values |-> setReq.values]
        ELSE IF setLim.err # "" THEN [err |-> setLim.err, c |-> c2, values |-> setLim.values]
        ELSE [err |-> "", c |-> c2, values |-> setLim.values]

\* 0-based index of the first sep in s, -1 when there is none.
Index(s, sep) ==
  IF \E i \in 1..Len(s) : s[i] = sep
    THEN (CHOOSE i \in 1..Len(s) : s[i] = sep /\ \A j \in 1..(i-1) : s[j] # sep) - 1
    ELSE -1

\* processPodContainer splitting the image at its first ':'.
processPodContainer_First(name, c, values) ==
  podContainerAt(Index(c.image, ":"), name, c, values)

processPodContainer(name, c, values) ==
  podContainerAt(LastIndex(c.image, ":"), name, c, values)

(***************************************************************************)
(* statefulset.processPodSpec: the values of the containers, in the order  *)
(* of the pod; nothing is returned once a container fails.                 *)
(***************************************************************************)
RECURSIVE podContainers(_, _, _, _)
podContainers(name, containers, i, values) ==
  IF i > Len(containers) THEN [err |-> "", containers |-> containers, values |-> values]
  ELSE LET p == processPodContainer(name, containers[i], values)
       IN  IF p.err # ""
             THEN [err |-> p.err, containers |-> containers, values |-> EmptyValues]
             ELSE podContainers(name, [containers EXCEPT ![i] = p.c], i + 1, p.values)

processPodSpec(name, containers) == podContainers(name, containers, 1, EmptyValues)

(***************************************************************************)
(* statefulset.Process.  fault names the call of a collaborator that       *)
(* fails: "cast" FromUnstructured, "meta" processor.ProcessObjMeta,        *)
(* "marshal" yamlformat.Marshal of the replicas, selector and labels,      *)
(* "marshalSpec" yamlformat.Marshal of the pod spec.  The selector, the    *)
(* labels and the annotations are written as they are and are left out of  *)
(* the template.                                                           *)
(***************************************************************************)
statefulsetGVC == "apps/v1/StatefulSet"

ResourcesTemplate(nameCamel, containerName) ==
  <<"{{- toYaml .Values.">> \o nameCamel \o <<".">> \o containerName
     \o <<".resources | nindent 10 }}">>

\* unstructured.NestedMap(values, fields...): the mapping at the fields.
NestedMap(values, fields) ==
  IF \E i \in 1..Len(fields) : SubSeq(fields, 1, i) \in DOMAIN values
    THEN [err |-> "accessor error", exists |-> FALSE, res |-> {}]
    ELSE LET below == {p \in DOMAIN values : IsPrefix(fields, p)}
         IN  [err |-> "", exists |-> below # {}, res |-> below]

NoResources == [k \in {} |-> <<>>]

\* The resources block of a container as the template shows it.
Block(c) == [templ |-> <<>>, requests |-> c.requests, limits |-> c.limits]

\* Lines 142-155: the container as the template shows it.
templateContainer(c, values, nameCamel) ==
  LET containerName == ToLowerCamel(c.name)
      found         == NestedMap(values, <<nameCamel, containerName, F_resources>>)
  IN  IF found.err # "" THEN [err |-> found.err, c |-> c]
      ELSE IF ~found.exists \/ Cardinality(found.res) = 0
        THEN [err |-> "", c |-> [name |-> c.name, image |-> ReplaceAll(c.image, "'"),
                                 resources |-> Block(c)]]
        ELSE [err |-> "",
              c |-> [name |-> c.name, image |-> ReplaceAll(c.image, "'"),
                     resources |-> [templ |-> ResourcesTemplate(nameCamel, containerName),
                                    requests |-> NoResources, limits |-> NoResources]]]

statefulsetProcess(o, f) ==
  IF o.gvk # statefulsetGVC THEN notApplicable
  ELSE IF f = "cast" THEN rejected("unable to cast to statefulset", <<>>)
  ELSE IF f = "meta" THEN rejected("meta", <<>>)
  ELSE
    LET name      == o.name
        replicas  == processReplicas(name, o, EmptyValues, f)
        nameCamel == ToLowerCamel(name)
        pod       == processPodSpec(nameCamel, o.containers)
        merged    == Merge(replicas.values, pod.values)
        shown     == [i \in 1..Len(pod.containers) |->
                        templateContainer(pod.containers[i], merged.values, nameCamel)]
    IN  IF replicas.err # "" THEN rejected(replicas.err, <<>>)
        ELSE IF f = "marshal" THEN rejected("marshal", <<>>)
        ELSE IF pod.err # "" THEN rejected(pod.err, <<>>)
        ELSE IF merged.err # "" THEN rejected(merged.err, <<>>)
        ELSE IF \E i \in 1..Len(shown) : shown[i].err # ""
          THEN rejected("accessor error", <<>>)
        ELSE IF f = "marshalSpec" THEN rejected("marshal", <<>>)
        ELSE Outcome(TRUE,
                     {[name   |-> "statefulset.yaml",
                       values |-> merged.values,
                       data   |-> [Replicas |-> replicas.replicas,
                                   Spec |-> [containers |-> [i \in 1..Len(shown) |-> shown[i].c]],
                                   VolumeClaimTemplates |-> o.volumeClaimTemplates]]},
                     "", <<>>)

(***************************************************************************)
(* The property extractor alone: every text over PropAlphabet of at most   *)
(* MaxLen characters, under the path prefix PropPrefix.                    *)
(***************************************************************************)
PropAlphabet == {"a", ".", "=", "\n"}
PropTexts    == UNION {[1..n -> PropAlphabet] : n \in 0..MaxLen}
PropPrefix   == << <<"c", "f", "g">> >>
NoPropOut    == [err |-> "pending", text |-> <<>>, values |-> EmptyValues]
NoObj        == [gvk |-> "none"]
NoOut        == [processed |-> FALSE, template |-> {}, err |-> "", log |-> <<>>]

InitProps ==
  /\ properties \in PropTexts
  /\ propOut = NoPropOut
  /\ obj = NoObj
  /\ fault = "none"
  /\ phase = "extractor"
  /\ by = "none"
  /\ out = NoOut

ParseProperties ==
  /\ phase = "extractor"
  /\ propOut = NoPropOut
  /\ propOut' = parseProperties(properties, PropPrefix, EmptyValues)
  /\ UNCHANGED <<properties, obj, fault, phase, by, out>>

NextProps == ParseProperties

SpecProps == InitProps /\ [][NextProps]_vars

(***************************************************************************)
(* The resources offered to the processors.                                *)
(***************************************************************************)
TheOne(s) == CHOOSE x \in s : TRUE
Option(s) == {{}} \cup {{x} : x \in s}

\* Embedded YAML: the mappings with at most MaxYamlLeaves leaves, at the keys
\* kind, apiVersion and a of the document and of the mapping at its key a.
YamlKeys  == {K_kind, K_apiVersion, K_a}
YamlPaths == {<<k>> : k \in YamlKeys} \cup {<<K_a, k>> : k \in YamlKeys}
YamlLeaves == {Str(<<"x">>), Leaf("float64", <<"1">>), Leaf("array", <<>>), Leaf("nil", <<>>)}
LeavesAt(p) ==
  IF p[Len(p)] = K_a THEN YamlLeaves ELSE {Str(<<"x">>)}
PrefixFree(S) == \A p \in S, q \in S : p # q => ~IsPrefix(p, q)
YamlConfigs ==
  UNION {{c \in [S -> YamlLeaves] : \A p \in S : c[p] \in LeavesAt(p)} :
           S \in {S \in SUBSET YamlPaths : Cardinality(S) <= MaxYamlLeaves /\ PrefixFree(S)}}
\* "- x": a sequence, which does not decode into a mapping.
NotAMapping == <<"-", " ", "x">>
YamlTexts ==
  {YamlDoc("source", FALSE, EmptyConfig, NotAMapping)}
    \cup {YamlDoc("source", TRUE, c, <<>>) : c \in YamlConfigs}

KeyPlain == K_kind
KeyYaml  == <<"c">> \o SuffixYaml
KeyYml   == <<"d">> \o SuffixYml
KeyProps == <<"p">> \o SuffixProperties
DataKeys == {KeyPlain, KeyYaml, KeyYml, KeyProps}

PlainTexts == {<<"v">>}
YmlTexts   == {YamlDoc("source", FALSE, EmptyConfig, NotAMapping),
               YamlDoc("source", TRUE, (<<K_a>> :> Str(<<"x">>)), <<>>)}
\* "a=1\nkind=x\n", "a=1\nb\n", "b\n", "it's\n"
PropertyTexts == {<<"a", "=", "1", "\n", "k", "i", "n", "d", "=", "x", "\n">>,
                  <<"a", "=", "1", "\n", "b", "\n">>,
                  <<"b", "\n">>,
                  <<"i", "t", "'", "s", "\n">>}

DataOf(plain, yaml, yml, props) ==
  [k \in {k \in DataKeys : \/ k = KeyPlain /\ plain # {}
                           \/ k = KeyYaml /\ yaml # {}
                           \/ k = KeyYml /\ yml # {}
                           \/ k = KeyProps /\ props # {}} |->
     IF k = KeyPlain THEN TheOne(plain)
     ELSE IF k = KeyYaml THEN TheOne(yaml)
     ELSE IF k = KeyYml THEN TheOne(yml)
     ELSE TheOne(props)]

DataMaps ==
  {DataOf(plain, yaml, yml, props) :
     plain \in Option(PlainTexts), yaml \in Option(YamlTexts),
     yml \in Option(YmlTexts), props \in Option(PropertyTexts)}

ConfigMaps ==
  {[gvk |-> configMapGVC, name |-> <<"c">>, immutable |-> {}, binaryData |-> {}, data |-> {d}] :
     d \in DataMaps}
    \cup {[gvk |-> configMapGVC, name |-> <<"c">>, immutable |-> i, binaryData |-> b, data |-> {}] :
            i \in Option({TRUE}), b \in Option({<<"b">>})}
ConfigMapFaults == {"none", "metadata", "marshal"}

ContainerNames == {<<"r", "e", "p", "l", "i", "c", "a", "s">>, <<"m", "y", "-", "a", "p", "p">>, <<"m", "y", "_", "a", "p", "p">>}
Images         == {<<"r">>, <<"r", ":", "1">>, <<"h", ":", "5", "/", "r", ":", "2">>}
ResourceLists  == {[requests |-> NoResources, limits |-> NoResources],
                   [requests |-> (<<"c", "p", "u">> :> <<"1">>), limits |-> (<<"m", "e", "m", "o", "r", "y">> :> <<"2", "G", "i">>)]}
Containers ==
  {[name |-> n, image |-> i, requests |-> r.requests, limits |-> r.limits] :
     n \in ContainerNames, i \in Images, r \in ResourceLists}
ContainerLists == UNION {[1..n -> Containers] : n \in 1..MaxContainers}

StatefulSets ==
  {[gvk |-> statefulsetGVC, name |-> <<"r", "e", "d", "i", "s">>, replicas |-> r, containers |-> cs,
    volumeClaimTemplates |-> v] :
     r \in Option({<<"3">>}), cs \in ContainerLists, v \in Option({<<"r", "e", "d", "i", "s", "-", "d", "a", "t", "a">>})}
StatefulsetFaults == {"none", "cast", "meta", "marshal", "marshalSpec"}

\* internal.TestNs
Others == {[gvk |-> "v1/Namespace", name |-> <<"n", "s">>]}

(***************************************************************************)
(* The processors: a resource is offered, and one processor is called on   *)
(* it.                                                                     *)
(***************************************************************************)
Init ==
  /\ properties = <<>>
  /\ propOut = NoPropOut
  /\ \/ obj \in ConfigMaps /\ fault \in ConfigMapFaults
     \/ obj \in StatefulSets /\ fault \in StatefulsetFaults
     \/ obj \in Others /\ fault = "none"
  /\ phase = "offered"
  /\ by = "none"
  /\ out = NoOut

ConfigMapProcess ==
  /\ phase = "offered"
  /\ \E r \in configMapProcess(obj, fault) : out' = r
  /\ by' = "configMap"
  /\ phase' = "done"
  /\ UNCHANGED <<properties, propOut, obj, fault>>

StatefulsetProcess ==
  /\ phase = "offered"
  /\ out' = statefulsetProcess(obj, fault)
  /\ by' = "statefulset"
  /\ phase' = "done"
  /\ UNCHANGED <<properties, propOut, obj, fault>>

Next == ConfigMapProcess \/ StatefulsetProcess

Spec == Init /\ [][Next]_vars

(***************************************************************************)
(* C1: what the property extractor is said to return.                      *)
(***************************************************************************)
LinesOf(text)   == Split(TrimSuffix(text, <<"\n">>), "\n")
CountOf(line, c) == Cardinality({i \in 1..Len(line) : line[i] = c})
WellFormed(text) == \A i \in 1..Len(LinesOf(text)) : CountOf(LinesOf(text)[i], "=") = 1
EqAt(line)      == CHOOSE i \in 1..Len(line) : line[i] = "="
NameOf(line)    == SubSeq(line, 1, EqAt(line) - 1)
ValueOf(line)   == SubSeq(line, EqAt(line) + 1, Len(line))
PathOf(line)    == PropPrefix \o Split(NameOf(line), ".")
ExpectedLine(line) == NameOf(line) \o <<"=">> \o Placeholder(PathOf(line)) \o <<"\n">>

RECURSIVE ExpectedText(_)
ExpectedText(lines) ==
  IF Len(lines) = 0 THEN <<>> ELSE ExpectedLine(lines[1]) \o ExpectedText(Tail(lines))

ExtractedAsClaimed ==
  /\ propOut.err = ""
  /\ propOut.text = ExpectedText(LinesOf(properties))
  /\ \A i \in 1..Len(LinesOf(properties)) :
       /\ PathOf(LinesOf(properties)[i]) \in DOMAIN propOut.values
       /\ propOut.values[PathOf(LinesOf(properties)[i])] = Str(ValueOf(LinesOf(properties)[i]))

\* Two lines clash when they name the same path with different values, or when
\* the path of one runs through the path of the other.
Clash(l1, l2) ==
  \/ PathOf(l1) = PathOf(l2) /\ ValueOf(l1) # ValueOf(l2)
  \/ PathOf(l1) # PathOf(l2) /\ IsPrefix(PathOf(l1), PathOf(l2))

NoClash(text) ==
  \A i, j \in 1..Len(LinesOf(text)) : ~Clash(LinesOf(text)[i], LinesOf(text)[j])

Done          == phase = "done"
NotApplicable == ~out.processed /\ out.template = {} /\ out.err = ""
Rewritten     == out.processed /\ out.template # {} /\ out.err = ""
Rejected      == out.processed /\ out.template = {} /\ out.err # ""
Owned         == IF by = "configMap" THEN configMapGVC ELSE statefulsetGVC
Template      == TheOne(out.template)

HasColon(image) == \E j \in 1..Len(image) : image[j] = ":"
LastColon(image) ==
  CHOOSE k \in 1..Len(image) : image[k] = ":" /\ \A j \in (k+1)..Len(image) : image[j] # ":"
RepoOf(image) == SubSeq(image, 1, LastColon(image) - 1)
TagOf(image)  == SubSeq(image, LastColon(image) + 1, Len(image))
BaseOf(c)     == <<ToLowerCamel(obj.name), ToLowerCamel(c.name)>>
RepoPath(base) == base \o <<F_image, F_repository>>
TagPath(base)  == base \o <<F_image, F_tag>>
ImageAsClaimed(base) ==
  <<"{{ .Values.">> \o Join(base, ".") \o <<".image.repository }}", ":", "{{ .Values.">>
     \o Join(base, ".") \o <<".image.tag | default .Chart.AppVersion }}">>
ByStatefulset == Done /\ by = "statefulset" /\ obj.gvk = statefulsetGVC

TestShape ==
  /\ obj.gvk = statefulsetGVC
  /\ Len(obj.containers) = 1
  /\ obj.replicas # {}
  /\ DOMAIN obj.containers[1].limits # {}
  /\ obj.volumeClaimTemplates # {}
  /\ ~HasColon(obj.containers[1].image)

\* C3: Process accepts every manifest of the shape of the test: processed, no
\* error.
C3_AsStated ==
  (Done /\ by = "statefulset" /\ fault = "none" /\ TestShape) =>
     out.processed /\ out.err = ""

\* Two containers of different names and the same normalized name, whose
\* images differ in the repository or in the tag.
Collide(c1, c2) ==
  /\ c1.name # c2.name
  /\ ToLowerCamel(c1.name) = ToLowerCamel(c2.name)
  /\ HasColon(c1.image) /\ HasColon(c2.image)
  /\ RepoOf(c1.image) # RepoOf(c2.image) \/ TagOf(c1.image) # TagOf(c2.image)

\* C7: a StatefulSet with two colliding containers is answered by an error.
C7_AsStated ==
  (ByStatefulset /\ \E i, j \in 1..Len(obj.containers) :
                       i < j /\ Collide(obj.containers[i], obj.containers[j]))
     => out.err # ""

DistinctNames ==
  \A i, j \in 1..Len(obj.containers) :
    i # j => obj.containers[i].name # obj.containers[j].name

\* C9: in the template of a StatefulSet (of containers of different names) the
\* resources block of a container is the placeholder if and only if that
\* container has a request or a limit, and is untouched otherwise.
C9_AsStated ==
  (ByStatefulset /\ Rewritten /\ DistinctNames) =>
     \A i \in 1..Len(obj.containers) :
       LET c     == obj.containers[i]
           shown == Template.data.Spec.containers[i].resources
       IN  IF DOMAIN c.requests \cup DOMAIN c.limits # {}
             THEN shown = [templ |-> <<"{{- toYaml .Values.">> \o Join(BaseOf(c), ".")
                                        \o <<".resources | nindent 10 }}">>,
                           requests |-> NoResources, limits |-> NoResources]
             ELSE shown = [templ |-> <<>>, requests |-> c.requests, limits |-> c.limits]

(***************************************************************************)
(* C4, C5, C6, C10: the ConfigMap processor.                               *)
(***************************************************************************)
ByConfigMap   == Done /\ by = "configMap" /\ obj.gvk = configMapGVC
Data          == TheOne(obj.data)
Shown         == TheOne(Template.data)
Discriminator == {K_kind, K_apiVersion}

\* C4: no leaf of the fragment of a ConfigMap ends with kind or apiVersion, and
\* no such field of an embedded document is replaced.
C4_AsStated ==
  (ByConfigMap /\ Rewritten) =>
     /\ \A p \in DOMAIN Template.values : p[Len(p)] \notin Discriminator
     /\ obj.data # {} =>
          \A k \in DOMAIN Data :
            (IsYamlKey(k) /\ Data[k].decodes) =>
              \A p \in DOMAIN Data[k].config :
                p[Len(p)] \in Discriminator => Shown[k].config[p] = Data[k].config[p]

\* C4 amended: no scalar field named kind or apiVersion of the decoded content
\* of a .yaml or .yml entry is a leaf of the fragment or is replaced by a
\* placeholder.
C4_Discriminators ==
  (ByConfigMap /\ Rewritten /\ obj.data # {}) =>
     \A k \in DOMAIN Data :
       (IsYamlKey(k) /\ Data[k].decodes) =>
         \A p \in DOMAIN Data[k].config :
           (p[Len(p)] \in Discriminator /\ Data[k].config[p].kind \in Scalars) =>
             /\ <<obj.name, k>> \o p \notin DOMAIN Template.values
             /\ Shown[k].config[p] = Data[k].config[p]

\* C4 witness: a document with a nested apiVersion beside an extracted leaf.
C4_Witness ==
  /\ ByConfigMap /\ Rewritten /\ obj.data # {}
  /\ KeyYaml \in DOMAIN Data
  /\ Data[KeyYaml].decodes
  /\ <<K_a, K_apiVersion>> \in DOMAIN Data[KeyYaml].config
  /\ <<obj.name, KeyYaml, K_a, K_a>> \in DOMAIN Template.values

FailsToParse(k) ==
  \/ IsYamlKey(k) /\ ~Data[k].decodes
  \/ /\ HasSuffix(k, SuffixProperties)
     /\ \E i \in 1..Len(LinesOf(Data[k])) : CountOf(LinesOf(Data[k])[i], "=") # 1

\* C6: with an entry that fails to parse, Process still answers processed with
\* no error; the template shows that entry with its text unchanged and every
\* other entry processed.
C6_AsStated ==
  (ByConfigMap /\ fault = "none" /\ obj.data # {}) =>
     /\ Rewritten
     /\ \A k \in DOMAIN Data :
          IF FailsToParse(k) THEN Shown[k] = Data[k] ELSE Shown[k] # Data[k]

\* C10: the fragment holds no leaf under the path of a property entry that
\* failed to parse.
C10_AsStated ==
  (ByConfigMap /\ Rewritten /\ obj.data # {}) =>
     \A k \in DOMAIN Data :
       (HasSuffix(k, SuffixProperties) /\ FailsToParse(k)) =>
         \A p \in DOMAIN Template.values : ~IsPrefix(<<obj.name, k>>, p)

====
